---- MODULE Spec2Model ----
(***************************************************************************)
(* Model of the clique routes (server/src/routes/cliques.ts): the store    *)
(* (cliques, members, ledgers), and every handler as a sequence of steps,  *)
(* one step per awaited storage call, so that handlers of different        *)
(* requests interleave exactly where the code can be suspended.            *)
(***************************************************************************)
EXTENDS Integers, Sequences, FiniteSets, TLC

\* ---- bounds of the model
NumUsers == 2
MaxCliques == 2
MaxMemberId == 3
MaxIds == 2
MaxAmount == 1
NumReq == 2
MaxTx == 1
MaxMedia == 2

Users == 1..NumUsers
\* user id 0 resolves to no user (prisma.user.findUnique returns null)
UserIdInputs == 0..NumUsers
CliqueIds == 1..MaxCliques
MemberIds == 1..MaxMemberId
Reqs == 1..NumReq
MediaIds == 1..MaxMedia

SeqsUpTo(S, n) == UNION {[1..k -> S] : k \in 0..n}

\* A Clique record is modelled by its id (its name and fund decide nothing
\* here), a Ledger row by its key and balance.
VARIABLES
  cliques,      \* set of clique ids that have a Clique record
  cliqueCount,  \* number of clique ids handed out by generateCliqueId
  members,      \* set of Member records
  ledgers,      \* sequence of Ledger rows, in insertion order
  transactions, \* transactions[g]: number of Transaction records of clique g
  media,        \* set of Media records
  events,       \* sequence of the events published to the notification channels
  req           \* req[r]: the request handled in slot r

vars == <<cliques, cliqueCount, members, ledgers, transactions, media, events,
          req>>

\* A request: the route (op), where its handler is suspended (pc), its
\* inputs (caller, clique, isArray, ids), the handler's locals (i: loop index,
\* newMembers, tmp: the member id in hand) and its answer (status, resp).
\* touched records the users the call created or reactivated, fault that the
\* answer came from a storage error: the handlers do not read either.
\* file is req.file as the upload middleware left it (present, and whether it
\* carries a mimetype and a location), msg the message of a media answer.
IdleReq ==
  [op |-> "none", pc |-> "idle", caller |-> 0, clique |-> 0, isArray |-> TRUE,
   ids |-> <<>>, i |-> 0, newMembers |-> <<>>, status |-> 0, resp |-> {},
   tmp |-> 0, touched |-> {}, fault |-> FALSE,
   file |-> [present |-> FALSE, mimetype |-> FALSE, location |-> FALSE],
   msg |-> ""]

Init ==
  /\ cliques = {}
  /\ cliqueCount = 0
  /\ members = {}
  /\ ledgers = <<>>
  /\ transactions = [g \in CliqueIds |-> 0]
  /\ media = {}
  /\ events = <<>>
  /\ req = [r \in Reqs |-> IdleReq]

\* ---- the store's queries

MemberById(id) == {m \in members : m.member_id = id}

\* prisma.member.findFirst({where: {user_id, clique_id}})
MembersOf(u, g) == {m \in members : m.user_id = u /\ m.clique_id = g}

LedgerRows(L, mid, g) ==
  {k \in DOMAIN L : L[k].member_id = mid /\ L[k].clique_id = g}

\* generateMemberId: an identifier no Member record carries. The handlers
\* draw it before the write that uses it (line 305 draws it before findFirst);
\* the generator touches no record, so the model draws it at the write.
FreshMemberIds == {n \in MemberIds : MemberById(n) = {}}
FreshMemberId == CHOOSE n \in FreshMemberIds : \A k \in FreshMemberIds : n <= k

NewMemberRecord(mid, u, g, admin) ==
  [member_id |-> mid, user_id |-> u, clique_id |-> g, is_admin |-> admin,
   is_active |-> TRUE]

NewLedgerRow(mid, g) == [member_id |-> mid, clique_id |-> g, amount |-> 0]

SetActive(M, mid, flag) ==
  {IF m.member_id = mid THEN [m EXCEPT !.is_active = flag] ELSE m : m \in M}

Finish(q, code) == [q EXCEPT !.pc = "done", !.status = code]

\* an awaited call raised an error of the storage layer itself: the handler's
\* catch block answers 500 (fault marks these answers in the model)
Caught(q) == [q EXCEPT !.pc = "done", !.status = 500, !.fault = TRUE]

Free(r) == req[r].pc = "idle"

NewReq(opname, u, g, arr, list, first) ==
  [IdleReq EXCEPT !.op = opname, !.pc = first, !.caller = u, !.clique = g,
                  !.isArray = arr, !.ids = list]

\* ---- POST / : create a clique

StartCreate(r) ==
  /\ Free(r)
  /\ \E u \in Users :
       req' = [req EXCEPT ![r] = NewReq("create", u, 0, TRUE, <<>>, "c_clique")]
  /\ UNCHANGED <<cliques, cliqueCount, members, ledgers, transactions, media,
               events>>

CreateClique(r) ==
  /\ req[r].pc = "c_clique"
  /\ cliqueCount < MaxCliques
  /\ cliqueCount' = cliqueCount + 1
  /\ cliques' = cliques \cup {cliqueCount + 1}
  /\ req' = [req EXCEPT ![r].pc = "c_member", ![r].clique = cliqueCount + 1]
  /\ UNCHANGED <<members, ledgers, transactions, media, events>>

CreateMember(r) ==
  /\ req[r].pc = "c_member"
  /\ FreshMemberIds # {}
  /\ members' = members \cup
       {NewMemberRecord(FreshMemberId, req[r].caller, req[r].clique, TRUE)}
  /\ req' = [req EXCEPT ![r].pc = "c_ledger", ![r].tmp = FreshMemberId]
  /\ UNCHANGED <<cliques, cliqueCount, ledgers, transactions, media, events>>

CreateLedger(r) ==
  /\ req[r].pc = "c_ledger"
  /\ ledgers' = Append(ledgers, NewLedgerRow(req[r].tmp, req[r].clique))
  /\ req' = [req EXCEPT ![r] = Finish(req[r], 201)]
  /\ UNCHANGED <<cliques, cliqueCount, members, transactions, media, events>>

\* the catch block: any awaited call of the handler threw
CreateFail(r) ==
  /\ req[r].pc \in {"c_clique", "c_member", "c_ledger"}
  /\ req' = [req EXCEPT ![r] = Caught(req[r])]
  /\ UNCHANGED <<cliques, cliqueCount, members, ledgers, transactions, media,
               events>>

\* ---- GET /:cliqueId and GET / : the listing queries

\* faulty variant: the listing without the is_active filters
ListedMembersAll(g) == {m \in members : m.clique_id = g}

\* include: {members: {where: {is_active: true}}}, then .filter(is_active)
ListedMembers(g) ==
  {m \in {n \in members : n.clique_id = g /\ n.is_active} : m.is_active}

\* where: {members: {some: {user_id, is_active: true}}}
CliquesOfUser(u) ==
  {g \in cliques :
     \E m \in members : m.clique_id = g /\ m.user_id = u /\ m.is_active}

CliqueView(g) == [clique_id |-> g, members |-> ListedMembers(g)]

StartGet(r) ==
  /\ Free(r)
  /\ \E g \in CliqueIds :
       req' = [req EXCEPT ![r] = NewReq("get", 0, g, TRUE, <<>>, "g_find")]
  /\ UNCHANGED <<cliques, cliqueCount, members, ledgers, transactions, media,
               events>>

GetClique(r) ==
  /\ req[r].pc = "g_find"
  /\ req' = [req EXCEPT ![r] =
       IF req[r].clique \in cliques
         THEN [Finish(req[r], 200) EXCEPT !.resp = {CliqueView(req[r].clique)}]
         ELSE Finish(req[r], 404)]
  /\ UNCHANGED <<cliques, cliqueCount, members, ledgers, transactions, media,
               events>>

StartList(r) ==
  /\ Free(r)
  /\ \E u \in Users :
       req' = [req EXCEPT ![r] = NewReq("list", u, 0, TRUE, <<>>, "l_find")]
  /\ UNCHANGED <<cliques, cliqueCount, members, ledgers, transactions, media,
               events>>

ListCliques(r) ==
  /\ req[r].pc = "l_find"
  /\ req' = [req EXCEPT ![r] =
       [Finish(req[r], 200) EXCEPT
          !.resp = {CliqueView(g) : g \in CliquesOfUser(req[r].caller)}]]
  /\ UNCHANGED <<cliques, cliqueCount, members, ledgers, transactions, media,
               events>>

ReadFail(r) ==
  /\ req[r].pc \in {"g_find", "l_find"}
  /\ req' = [req EXCEPT ![r] = Caught(req[r])]
  /\ UNCHANGED <<cliques, cliqueCount, members, ledgers, transactions, media,
               events>>

\* ---- checkCliqueLevelPerms(":/cliqueId", level)

\* faulty variant: the remove route declared without its admin gate
RequiredLevelOpenRemove(opname) ==
  IF opname \in {"delete", "add"} THEN "admin"
  ELSE IF opname = "media" THEN "member"
  ELSE "none"

RequiredLevel(opname) ==
  IF opname \in {"delete", "add", "remove"} THEN "admin"
  ELSE IF opname = "media" THEN "member"
  ELSE "none"

Permitted(u, g, level) ==
  \E m \in members :
    /\ m.user_id = u
    /\ m.clique_id = g
    /\ m.is_active
    /\ (level = "admin" => m.is_admin)

\* the Member the gate resolves and attaches to the request (res.locals.member)
ResolvedMembers(u, g, level) ==
  {m \in members :
     /\ m.user_id = u
     /\ m.clique_id = g
     /\ m.is_active
     /\ (level = "admin" => m.is_admin)}

\* ---- POST /:cliqueId/members/ : add members

\* the head of the for loop, up to the first awaited call of the iteration
AddLoop(q) ==
  IF q.i > Len(q.ids)
    THEN IF Len(q.newMembers) = 0 THEN Finish(q, 404) ELSE Finish(q, 201)
    ELSE [q EXCEPT !.pc = "a_user"]

AddEnter(q) ==
  IF ~q.isArray THEN Finish(q, 400) ELSE AddLoop([q EXCEPT !.i = 1])

StartAdd(r) ==
  /\ Free(r)
  /\ \E u \in Users, g \in CliqueIds, arr \in BOOLEAN :
       \E list \in (IF arr THEN SeqsUpTo(UserIdInputs, MaxIds) ELSE {<<>>}) :
         req' = [req EXCEPT ![r] = NewReq("add", u, g, arr, list, "gate")]
  /\ UNCHANGED <<cliques, cliqueCount, members, ledgers, transactions, media,
               events>>

\* faulty variant: an unknown user id undoes the members the call has created
AddFindUserRollback(r) ==
  /\ req[r].pc = "a_user"
  /\ LET q == req[r]
         made == {q.newMembers[k].member_id : k \in DOMAIN q.newMembers}
     IN IF q.ids[q.i] \in Users
          THEN /\ req' = [req EXCEPT ![r].pc = "a_check"]
               /\ UNCHANGED members
          ELSE /\ req' = [req EXCEPT ![r] = Finish(q, 404)]
               /\ members' = {m \in members : m.member_id \notin made}
  /\ UNCHANGED <<cliques, cliqueCount, ledgers, transactions, media, events>>

AddFindUser(r) ==
  /\ req[r].pc = "a_user"
  /\ req' = [req EXCEPT ![r] =
       IF req[r].ids[req[r].i] \in Users
         THEN [req[r] EXCEPT !.pc = "a_check"]
         ELSE Finish(req[r], 404)]
  /\ UNCHANGED <<cliques, cliqueCount, members, ledgers, transactions, media,
               events>>

\* faulty variant: an active record is not reported: the loop goes on to create
AddBranchNoConflict(q, found) ==
  IF found.is_active
    THEN [q EXCEPT !.pc = "a_create"]
    ELSE [q EXCEPT !.pc = "a_react", !.tmp = found.member_id]

\* the branch taken on the record findFirst returned
AddBranch(q, found) ==
  IF found.is_active
    THEN Finish(q, 409)
    ELSE [q EXCEPT !.pc = "a_react", !.tmp = found.member_id]

AddCheckMember(r) ==
  /\ req[r].pc = "a_check"
  /\ LET q == req[r]
         found == MembersOf(q.ids[q.i], q.clique)
     IN IF found = {}
          THEN req' = [req EXCEPT ![r].pc = "a_create"]
          ELSE \E m \in found : req' = [req EXCEPT ![r] = AddBranch(q, m)]
  /\ UNCHANGED <<cliques, cliqueCount, members, ledgers, transactions, media,
               events>>

\* what the reactivation branch answers with
ReactivateResponse(q) ==
  [Finish(q, 201) EXCEPT !.touched = @ \cup {q.ids[q.i]}]

\* faulty variant: reactivation opens a fresh zero-balance Ledger row
AddReactivateNewLedger(r) ==
  /\ req[r].pc = "a_react"
  /\ members' = SetActive(members, req[r].tmp, TRUE)
  /\ ledgers' = Append(ledgers, NewLedgerRow(req[r].tmp, req[r].clique))
  /\ req' = [req EXCEPT ![r] = ReactivateResponse(req[r])]
  /\ UNCHANGED <<cliques, cliqueCount, transactions, media, events>>

AddReactivate(r) ==
  /\ req[r].pc = "a_react"
  /\ members' = SetActive(members, req[r].tmp, TRUE)
  /\ req' = [req EXCEPT ![r] = ReactivateResponse(req[r])]
  /\ UNCHANGED <<cliques, cliqueCount, ledgers, transactions, media, events>>

AddCreateMember(r) ==
  /\ req[r].pc = "a_create"
  /\ FreshMemberIds # {}
  /\ LET q == req[r] IN
       /\ members' = members \cup
            {NewMemberRecord(FreshMemberId, q.ids[q.i], q.clique, FALSE)}
       /\ req' = [req EXCEPT ![r].pc = "a_ledger", ![r].tmp = FreshMemberId,
                             ![r].touched = @ \cup {q.ids[q.i]}]
  /\ UNCHANGED <<cliques, cliqueCount, ledgers, transactions, media, events>>

AddCreateLedger(r) ==
  /\ req[r].pc = "a_ledger"
  /\ LET q == req[r] IN
       /\ ledgers' = Append(ledgers, NewLedgerRow(q.tmp, q.clique))
       /\ req' = [req EXCEPT ![r] =
            AddLoop([q EXCEPT
              !.newMembers = Append(@, [member_id |-> q.tmp, user_id |-> q.ids[q.i]]),
              !.i = @ + 1])]
  /\ UNCHANGED <<cliques, cliqueCount, members, transactions, media, events>>

AddFail(r) ==
  /\ req[r].pc \in {"a_user", "a_check", "a_react", "a_create", "a_ledger"}
  /\ req' = [req EXCEPT ![r] = Caught(req[r])]
  /\ UNCHANGED <<cliques, cliqueCount, members, ledgers, transactions, media,
               events>>

\* ---- DELETE /:cliqueId/members/ : remove members

RemoveLoop(q) ==
  IF q.i > Len(q.ids) THEN Finish(q, 204) ELSE [q EXCEPT !.pc = "r_update"]

\* faulty variant: the body is not checked to be an array
RemoveEnterUnchecked(q) == RemoveLoop([q EXCEPT !.i = 1])

RemoveEnter(q) ==
  IF ~q.isArray THEN Finish(q, 400) ELSE RemoveLoop([q EXCEPT !.i = 1])

StartRemove(r) ==
  /\ Free(r)
  /\ \E u \in Users, g \in CliqueIds, arr \in BOOLEAN :
       \E list \in (IF arr THEN SeqsUpTo(MemberIds, MaxIds) ELSE {<<>>}) :
         req' = [req EXCEPT ![r] = NewReq("remove", u, g, arr, list, "gate")]
  /\ UNCHANGED <<cliques, cliqueCount, members, ledgers, transactions, media,
               events>>

\* faulty variant: the update matches active records only: an inactive one throws
RemoveUpdateStrict(r) ==
  /\ req[r].pc = "r_update"
  /\ LET q == req[r]
         id == q.ids[q.i]
     IN IF \A m \in MemberById(id) : ~m.is_active
          THEN /\ req' = [req EXCEPT ![r] = Finish(q, 500)]
               /\ UNCHANGED members
          ELSE /\ members' = SetActive(members, id, FALSE)
               /\ req' = [req EXCEPT ![r] = RemoveLoop([q EXCEPT !.i = @ + 1])]
  /\ UNCHANGED <<cliques, cliqueCount, ledgers, transactions, media, events>>

\* prisma.member.update throws when no record has the member_id
RemoveUpdate(r) ==
  /\ req[r].pc = "r_update"
  /\ LET q == req[r]
         id == q.ids[q.i]
     IN IF MemberById(id) = {}
          THEN /\ req' = [req EXCEPT ![r] = Finish(q, 500)]
               /\ UNCHANGED members
          ELSE /\ members' = SetActive(members, id, FALSE)
               /\ req' = [req EXCEPT ![r] = RemoveLoop([q EXCEPT !.i = @ + 1])]
  /\ UNCHANGED <<cliques, cliqueCount, ledgers, transactions, media, events>>

RemoveFail(r) ==
  /\ req[r].pc = "r_update"
  /\ req' = [req EXCEPT ![r] = Caught(req[r])]
  /\ UNCHANGED <<cliques, cliqueCount, members, ledgers, transactions, media,
               events>>

\* ---- DELETE /:cliqueId : delete a clique

StartDelete(r) ==
  /\ Free(r)
  /\ \E u \in Users, g \in CliqueIds :
       req' = [req EXCEPT ![r] = NewReq("delete", u, g, TRUE, <<>>, "gate")]
  /\ UNCHANGED <<cliques, cliqueCount, members, ledgers, transactions, media,
               events>>

\* prisma.clique.delete throws when no record has the clique_id
DeleteClique(r) ==
  /\ req[r].pc = "d_clique"
  /\ IF req[r].clique \in cliques
       THEN /\ cliques' = cliques \ {req[r].clique}
            /\ req' = [req EXCEPT ![r].pc = "d_tx"]
       ELSE /\ req' = [req EXCEPT ![r] = Finish(req[r], 500)]
            /\ UNCHANGED cliques
  /\ UNCHANGED <<cliqueCount, members, ledgers, transactions, media, events>>

DeleteTransactions(r) ==
  /\ req[r].pc = "d_tx"
  /\ transactions' = [transactions EXCEPT ![req[r].clique] = 0]
  /\ req' = [req EXCEPT ![r] = Finish(req[r], 204)]
  /\ UNCHANGED <<cliques, cliqueCount, members, ledgers, media, events>>

DeleteFail(r) ==
  /\ req[r].pc \in {"d_clique", "d_tx"}
  /\ req' = [req EXCEPT ![r] = Caught(req[r])]
  /\ UNCHANGED <<cliques, cliqueCount, members, ledgers, transactions, media,
               events>>

\* ---- POST /:cliqueId/media/ : media ingest

FreshMediaIds == {n \in MediaIds : \A x \in media : x.media_id # n}
FreshMediaId == CHOOSE n \in FreshMediaIds : \A k \in FreshMediaIds : n <= k

FileInputs ==
  {[present |-> FALSE, mimetype |-> FALSE, location |-> FALSE]}
    \cup {[present |-> TRUE, mimetype |-> a, location |-> b] : a, b \in BOOLEAN}

StartMedia(r) ==
  /\ Free(r)
  /\ \E u \in Users, g \in CliqueIds, f \in FileInputs :
       req' = [req EXCEPT ![r] =
                 [NewReq("media", u, g, TRUE, <<>>, "gate") EXCEPT !.file = f]]
  /\ UNCHANGED <<cliques, cliqueCount, members, ledgers, transactions, media,
               events>>

\* faulty variant: the upload result is not validated
MediaEnterNoSchema(q) ==
  IF ~q.file.present
    THEN [Finish(q, 400) EXCEPT !.msg = "No file was provided!!"]
    ELSE [q EXCEPT !.pc = "m_create"]

\* the handler behind the gate and the upload middleware (which touches no
\* record), up to its first awaited storage call
MediaEnter(q) ==
  IF ~q.file.present
    THEN [Finish(q, 400) EXCEPT !.msg = "No file was provided!!"]
  ELSE IF ~(q.file.mimetype /\ q.file.location)
    THEN [Finish(q, 500) EXCEPT !.msg = "File was not uploaded"]
  ELSE [q EXCEPT !.pc = "m_create"]

NewMediaRecord(q) ==
  [media_id |-> FreshMediaId, clique_id |-> q.clique, sender_id |-> q.tmp]

MediaEvent(g, rec) ==
  [channel |-> g, type |-> "media-created", payload |-> rec]

\* prisma.media.create, io.to(cliqueId).emit, res.status(201)
MediaCreate(r) ==
  /\ req[r].pc = "m_create"
  /\ FreshMediaIds # {}
  /\ LET rec == NewMediaRecord(req[r]) IN
       /\ media' = media \cup {rec}
       /\ events' = Append(events, MediaEvent(req[r].clique, rec))
       /\ req' = [req EXCEPT ![r] =
            [Finish(req[r], 201) EXCEPT !.resp = {rec},
                                        !.touched = {rec.media_id}]]
  /\ UNCHANGED <<cliques, cliqueCount, members, ledgers, transactions>>

\* the record is written and emit throws: the catch block answers
MediaPublishFail(r) ==
  /\ req[r].pc = "m_create"
  /\ FreshMediaIds # {}
  /\ LET rec == NewMediaRecord(req[r]) IN
       /\ media' = media \cup {rec}
       /\ req' = [req EXCEPT ![r] =
            [Finish(req[r], 500) EXCEPT !.msg = "Database error",
                                        !.touched = {rec.media_id}]]
  /\ UNCHANGED <<cliques, cliqueCount, members, ledgers, transactions, events>>

\* faulty variant: the event is emitted although the record was not written
MediaFailAfterEmit(r) ==
  /\ req[r].pc = "m_create"
  /\ FreshMediaIds # {}
  /\ events' = Append(events, MediaEvent(req[r].clique, NewMediaRecord(req[r])))
  /\ req' = [req EXCEPT ![r] = [Caught(req[r]) EXCEPT !.msg = "Database error"]]
  /\ UNCHANGED <<cliques, cliqueCount, members, ledgers, transactions, media>>

\* generateMediaId or prisma.media.create throws
MediaFail(r) ==
  /\ req[r].pc = "m_create"
  /\ req' = [req EXCEPT ![r] = [Caught(req[r]) EXCEPT !.msg = "Database error"]]
  /\ UNCHANGED <<cliques, cliqueCount, members, ledgers, transactions, media,
               events>>

\* ---- the permission gate in front of the gated routes

Enter(q) ==
  IF q.op = "add" THEN AddEnter(q)
  ELSE IF q.op = "remove" THEN RemoveEnter(q)
  ELSE IF q.op = "media" THEN MediaEnter(q)
  ELSE [q EXCEPT !.pc = "d_clique"]

\* the member id the gate leaves in the request context; the media handler
\* alone reads it
Attached(q) ==
  IF q.op = "media"
    THEN {m.member_id :
            m \in ResolvedMembers(q.caller, q.clique, RequiredLevel(q.op))}
    ELSE {q.tmp}

Gate(r) ==
  /\ req[r].pc = "gate"
  /\ IF RequiredLevel(req[r].op) = "none"
          \/ Permitted(req[r].caller, req[r].clique, RequiredLevel(req[r].op))
       THEN \E mid \in Attached(req[r]) :
              req' = [req EXCEPT ![r] = Enter([req[r] EXCEPT !.tmp = mid])]
       ELSE req' = [req EXCEPT ![r] = Finish(req[r], 403)]
  /\ UNCHANGED <<cliques, cliqueCount, members, ledgers, transactions, media,
               events>>

\* the response has been sent: the slot takes the next request
Complete(r) ==
  /\ req[r].pc = "done"
  /\ req' = [req EXCEPT ![r] = IdleReq]
  /\ UNCHANGED <<cliques, cliqueCount, members, ledgers, transactions, media,
               events>>

\* ---- the transaction subsystem (outside these routes) moves a balance

AdjustLedger ==
  /\ \E k \in DOMAIN ledgers :
       ledgers' = [ledgers EXCEPT ![k].amount = (@ + 1) % (MaxAmount + 1)]
  /\ UNCHANGED <<cliques, cliqueCount, members, transactions, media, events,
               req>>

\* the transaction subsystem records a Transaction of an existing clique
RecordTransaction ==
  /\ \E g \in cliques :
       /\ transactions[g] < MaxTx
       /\ transactions' = [transactions EXCEPT ![g] = @ + 1]
  /\ UNCHANGED <<cliques, cliqueCount, members, ledgers, media, events, req>>

CreateStep(r) ==
  \/ StartCreate(r)
  \/ CreateClique(r)
  \/ CreateMember(r)
  \/ CreateLedger(r)
  \/ CreateFail(r)

ReadStep(r) ==
  \/ StartGet(r)
  \/ GetClique(r)
  \/ StartList(r)
  \/ ListCliques(r)
  \/ ReadFail(r)

AddStep(r) ==
  \/ StartAdd(r)
  \/ AddFindUser(r)
  \/ AddCheckMember(r)
  \/ AddReactivate(r)
  \/ AddCreateMember(r)
  \/ AddCreateLedger(r)
  \/ AddFail(r)

RemoveStep(r) ==
  \/ StartRemove(r)
  \/ RemoveUpdate(r)
  \/ RemoveFail(r)

DeleteStep(r) ==
  \/ StartDelete(r)
  \/ DeleteClique(r)
  \/ DeleteTransactions(r)
  \/ DeleteFail(r)

\* every route, one request at a time
Next ==
  \/ CreateStep(1)
  \/ ReadStep(1)
  \/ AddStep(1)
  \/ RemoveStep(1)
  \/ DeleteStep(1)
  \/ Gate(1)
  \/ Complete(1)

Spec == Init /\ [][Next]_vars

\* the membership routes, one request at a time, with the transaction
\* subsystem moving the balances
NextLedger ==
  \/ CreateStep(1)
  \/ AddStep(1)
  \/ RemoveStep(1)
  \/ Gate(1)
  \/ Complete(1)
  \/ AdjustLedger

SpecLedger == Init /\ [][NextLedger]_vars

\* the store after user 1 has created clique 1
InitConc ==
  /\ cliques = {1}
  /\ cliqueCount = 1
  /\ members = {NewMemberRecord(1, 1, 1, TRUE)}
  /\ ledgers = <<NewLedgerRow(1, 1)>>
  /\ transactions = [g \in CliqueIds |-> 0]
  /\ media = {}
  /\ events = <<>>
  /\ req = [r \in Reqs |-> IdleReq]

\* add requests of all slots interleaved at their awaited calls, with the
\* remove requests of slot 1
NextConc ==
  \/ RemoveStep(1)
  \/ \E r \in Reqs :
       \/ AddStep(r)
       \/ Gate(r)
       \/ Complete(r)

SpecConc == InitConc /\ [][NextConc]_vars

MediaStep(r) ==
  \/ StartMedia(r)
  \/ MediaCreate(r)
  \/ MediaPublishFail(r)
  \/ MediaFail(r)

\* create and delete, one request at a time, with the transaction subsystem
\* recording transactions
NextDelete ==
  \/ CreateStep(1)
  \/ DeleteStep(1)
  \/ Gate(1)
  \/ Complete(1)
  \/ RecordTransaction

SpecDelete == Init /\ [][NextDelete]_vars

\* create, remove and media ingest, one request at a time
NextMedia ==
  \/ CreateStep(1)
  \/ RemoveStep(1)
  \/ MediaStep(1)
  \/ Gate(1)
  \/ Complete(1)

SpecMedia == Init /\ [][NextMedia]_vars

\* media requests of all slots interleaved at their awaited calls, with the
\* remove requests of slot 1
NextMediaConc ==
  \/ RemoveStep(1)
  \/ \E r \in Reqs :
       \/ MediaStep(r)
       \/ Gate(r)
       \/ Complete(r)

SpecMediaConc == InitConc /\ [][NextMediaConc]_vars

\* ---- what the properties below speak of

InFlight(q) == q.pc \notin {"idle", "done"}

\* slot r took the step
Acted(r) == req'[r] # req[r]

StoreUnchanged ==
  UNCHANGED <<cliques, cliqueCount, members, ledgers, transactions>>

CountMembers(M, u, g) ==
  Cardinality({m \in M : m.user_id = u /\ m.clique_id = g})

CountLedgers(M, L, u, g) ==
  Cardinality({k \in DOMAIN L :
    /\ L[k].clique_id = g
    /\ \E m \in M : /\ m.user_id = u
                    /\ m.clique_id = g
                    /\ m.member_id = L[k].member_id})

HasActiveMember(u, g) == \E m \in MembersOf(u, g) : m.is_active

\* an add request answered from the reactivation branch (the loop was left
\* before its last id)
Reactivated(q) ==
  q.op = "add" /\ q.pc = "done" /\ q.status = 201 /\ q.i <= Len(q.ids)

\* ---- C1
\* C1: a clique that any operation can see has its founding admin member,
\* and that member has its ledger entry (create is all-or-nothing).
CreateAllOrNothing ==
  \A g \in cliques :
    \E m \in members :
      /\ m.clique_id = g
      /\ m.is_admin
      /\ LedgerRows(ledgers, m.member_id, g) # {}

\* ---- C2
\* C2: in every reachable state every Member record has exactly one Ledger
\* entry keyed by its member id and clique id.
OneLedgerPerMember ==
  \A m \in members :
    Cardinality(LedgerRows(ledgers, m.member_id, m.clique_id)) = 1

\* ---- C3
\* C3: under interleaved add requests a (user, clique) pair never has two
\* Member records.
OneMemberPerPair ==
  \A u \in Users, g \in CliqueIds : CountMembers(members, u, g) <= 1

\* ---- C4
\* C4: while user u holds an active Member record in g that this call did
\* not itself create, no step of an add request on g changes the number of
\* Member records or Ledger entries of (u, g), and the membership check of
\* u answers 409.
ConflictOnActive ==
  [][\A r \in Reqs, u \in Users :
       LET q == req[r] IN
       (/\ q.op = "add"
        /\ InFlight(q)
        /\ Acted(r)
        /\ HasActiveMember(u, q.clique)
        /\ u \notin q.touched)
       => /\ CountMembers(members', u, q.clique)
               = CountMembers(members, u, q.clique)
          /\ CountLedgers(members', ledgers', u, q.clique)
               = CountLedgers(members, ledgers, u, q.clique)
          /\ (q.pc = "a_check" /\ q.ids[q.i] = u /\ ~req'[r].fault)
               => /\ req'[r].pc = "done"
                  /\ req'[r].status = 409
                  /\ req'[r].i = q.i]_vars

ConflictAnswered ==
  \E r \in Reqs :
    /\ req[r].op = "add"
    /\ req[r].pc = "done"
    /\ req[r].status = 409
    /\ HasActiveMember(req[r].ids[req[r].i], req[r].clique)

\* ---- C5
\* C5: a step of removeMembers or of the reactivation branch of addMembers
\* leaves every Ledger row as it was and creates none; a re-added user whose
\* Member record is inactive is sent to the reactivation branch with that
\* record, which becomes active again under the same member id.
LedgerKeptOnRejoin ==
  [][\A r \in Reqs :
       LET q == req[r] IN
       /\ (q.pc \in {"r_update", "a_react"} /\ Acted(r))
            => /\ ledgers' = ledgers
               /\ {m.member_id : m \in members'} = {m.member_id : m \in members}
       /\ (q.pc = "a_react" /\ Acted(r) /\ ~req'[r].fault)
            => /\ members' = SetActive(members, q.tmp, TRUE)
               /\ \E m \in members' :
                    /\ m.member_id = q.tmp
                    /\ m.user_id = q.ids[q.i]
                    /\ m.clique_id = q.clique
                    /\ m.is_active
       /\ (/\ q.pc = "a_check"
           /\ Acted(r)
           /\ ~req'[r].fault
           /\ MembersOf(q.ids[q.i], q.clique) # {}
           /\ ~HasActiveMember(q.ids[q.i], q.clique))
            => /\ req'[r].pc = "a_react"
               /\ req'[r].tmp \in
                    {m.member_id : m \in MembersOf(q.ids[q.i], q.clique)}]_vars

RejoinedWithBalance ==
  \E r \in Reqs :
    /\ Reactivated(req[r])
    /\ \E m \in members :
         /\ m.member_id = req[r].tmp
         /\ m.is_active
         /\ \E k \in LedgerRows(ledgers, m.member_id, m.clique_id) :
              ledgers[k].amount # 0

\* ---- C6
\* C6: the members a get or list response carries are all active, and a
\* list response carries a clique only with an active Member record of the
\* caller in it.
ListingsShowActiveOnly ==
  \A r \in Reqs :
    (req[r].pc = "done" /\ req[r].op \in {"get", "list"})
      => \A v \in req[r].resp :
           /\ \A m \in v.members : m.is_active /\ m.clique_id = v.clique_id
           /\ req[r].op = "list"
                => \E m \in v.members : m.user_id = req[r].caller

RemovedUserSeesNothing ==
  \E r \in Reqs :
    /\ req[r].pc = "done"
    /\ req[r].op = "list"
    /\ req[r].status = 200
    /\ \E m \in members :
         /\ m.user_id = req[r].caller
         /\ m.clique_id \in cliques
         /\ ~m.is_active
         /\ \A v \in req[r].resp : v.clique_id # m.clique_id

\* ---- C7
\* C7: a caller with no active Member record in an existing clique is
\* answered 403 by the gate of delete, add and remove, and that step changes
\* no clique, member, ledger or transaction record.
NonMemberForbidden ==
  [][\A r \in Reqs :
       LET q == req[r] IN
       (/\ q.op \in {"delete", "add", "remove"}
        /\ q.pc = "gate"
        /\ q.clique \in cliques
        /\ ~HasActiveMember(q.caller, q.clique)
        /\ Acted(r))
       => /\ req'[r].pc = "done"
          /\ req'[r].status = 403
          /\ StoreUnchanged]_vars

ForbiddenAnswered ==
  \E r \in Reqs :
    /\ req[r].pc = "done"
    /\ req[r].status = 403
    /\ req[r].op = "remove"
    /\ req[r].clique \in cliques
    /\ ~HasActiveMember(req[r].caller, req[r].clique)

\* ---- C8
\* C8: the data of a 201 answer of addMembers names every user the call
\* created or reactivated.
AddReturnsAllTouched ==
  \A r \in Reqs :
    (req[r].op = "add" /\ req[r].pc = "done" /\ req[r].status = 201)
      => \A u \in req[r].touched :
           \E k \in DOMAIN req[r].newMembers : req[r].newMembers[k].user_id = u

\* ---- C9
\* C9: an id that resolves to no user is answered 404 at that id, the loop
\* index stays on it, the step changes no record, and every Member/Ledger
\* pair the call created for the earlier ids is still in the store.
UnknownUserStopsNoRollback ==
  [][\A r \in Reqs :
       LET q == req[r] IN
       (/\ q.pc = "a_user"
        /\ q.ids[q.i] \notin Users
        /\ Acted(r)
        /\ ~req'[r].fault)
       => /\ req'[r].pc = "done"
          /\ req'[r].status = 404
          /\ req'[r].i = q.i
          /\ req'[r].touched = {q.ids[k] : k \in 1..(q.i - 1)}
          /\ StoreUnchanged
          /\ \A k \in DOMAIN q.newMembers :
               /\ \E m \in members' :
                    /\ m.member_id = q.newMembers[k].member_id
                    /\ m.user_id = q.newMembers[k].user_id
                    /\ m.clique_id = q.clique
               /\ LedgerRows(ledgers', q.newMembers[k].member_id, q.clique)
                    # {}]_vars

StoppedAfterOneAdded ==
  \E r \in Reqs :
    /\ req[r].op = "add"
    /\ req[r].pc = "done"
    /\ req[r].status = 404
    /\ req[r].i = 2
    /\ Len(req[r].ids) = 2
    /\ Len(req[r].newMembers) = 1
    /\ \E m \in members : m.member_id = req[r].newMembers[1].member_id

\* ---- C10
\* C10: the update of removeMembers on a Member record that is already
\* inactive is no error and changes no record; the request goes on to the
\* next id or answers 204.
RemoveIdempotent ==
  [][\A r \in Reqs :
       LET q == req[r] IN
       (/\ q.pc = "r_update"
        /\ \E m \in MemberById(q.ids[q.i]) : ~m.is_active
        /\ Acted(r)
        /\ ~req'[r].fault)
       => /\ StoreUnchanged
          /\ req'[r].i = q.i + 1
          /\ \/ req'[r].pc = "r_update" /\ req'[r].status = 0
             \/ req'[r].pc = "done" /\ req'[r].status = 204]_vars

RemovedTwice ==
  \E r \in Reqs :
    /\ req[r].op = "remove"
    /\ req[r].pc = "done"
    /\ req[r].status = 204
    /\ Len(req[r].ids) = 2
    /\ req[r].ids[1] = req[r].ids[2]
    /\ \E m \in MemberById(req[r].ids[1]) : ~m.is_active

\* ---- C11
\* C11: once a delete request has removed a clique and been answered (with
\* or without a failure between its two storage steps), no Transaction of
\* that clique is left.
DeleteLeavesNoTransactions ==
  \A r \in Reqs :
    (/\ req[r].op = "delete"
     /\ req[r].pc = "done"
     /\ req[r].clique \notin cliques)
      => transactions[req[r].clique] = 0

\* ---- C12
\* C12: a delete request that reaches the handler for a clique id that does
\* not exist is answered 404 (not 500) and changes no record.
DeleteAbsentNotFound ==
  [][\A r \in Reqs :
       (/\ req[r].op = "delete"
        /\ req[r].pc = "d_clique"
        /\ req[r].clique \notin cliques
        /\ Acted(r)
        /\ ~req'[r].fault)
         => (req'[r].status = 404 /\ StoreUnchanged)]_vars

\* ---- C13
\* C13: a media request that passes the gate with an upload result lacking
\* its content type or its storage location is answered with the upload
\* failure, and neither a Media record nor an event is created.
UploadErrorCreatesNothing ==
  [][\A r \in Reqs :
       (/\ req[r].op = "media"
        /\ req[r].pc = "gate"
        /\ req[r].file.present
        /\ ~(req[r].file.mimetype /\ req[r].file.location)
        /\ Acted(r)
        /\ req'[r].status # 403)
         => /\ req'[r].pc = "done"
            /\ req'[r].status = 500
            /\ req'[r].msg = "File was not uploaded"
            /\ UNCHANGED <<media, events>>]_vars

UploadWithoutLocationAnswered ==
  \E r \in Reqs :
    /\ req[r].op = "media"
    /\ req[r].pc = "done"
    /\ req[r].file.present
    /\ req[r].file.mimetype
    /\ ~req[r].file.location
    /\ req[r].msg = "File was not uploaded"
    /\ media = {}
    /\ events = <<>>

\* ---- C14
\* C14: every published event is a media-created event on the channel of
\* its record's clique, its payload is a Media record of the store, and no
\* two events carry the same record (so nothing is published for a record
\* that was not written).
EventsFollowPersistence ==
  /\ \A k \in 1..Len(events) :
       /\ events[k].type = "media-created"
       /\ events[k].payload \in media
       /\ events[k].channel = events[k].payload.clique_id
  /\ \A j, k \in 1..Len(events) :
       events[j].payload.media_id = events[k].payload.media_id => j = k

TwoEventsPublished ==
  /\ Len(events) = 2
  /\ \E r \in Reqs :
       /\ req[r].op = "media"
       /\ req[r].pc = "done"
       /\ req[r].status = 201
       /\ events[2].payload \in req[r].resp

\* ---- C15
\* C15: a media request that has written its Media record is answered 201
\* with that record, whether or not the publish of the event failed.
PublishFailureTolerated ==
  \A r \in Reqs :
    (/\ req[r].op = "media"
     /\ req[r].pc = "done"
     /\ req[r].touched # {})
      => /\ req[r].status = 201
         /\ \E x \in req[r].resp : x.media_id \in req[r].touched

\* ---- C16
\* C16: an add or remove request that reaches its handler with a body that
\* is not an array is answered 400 at once and changes no record.
NonArrayRejected ==
  [][\A r \in Reqs :
       (/\ req[r].op \in {"add", "remove"}
        /\ req[r].pc = "gate"
        /\ ~req[r].isArray
        /\ Acted(r)
        /\ req'[r].status # 403)
         => /\ req'[r].pc = "done"
            /\ req'[r].status = 400
            /\ StoreUnchanged]_vars

NonArrayAddAnswered ==
  \E r \in Reqs :
    /\ req[r].op = "add"
    /\ req[r].pc = "done"
    /\ ~req[r].isArray
    /\ req[r].status = 400
    /\ Cardinality(members) = 1

\* ---- C17
\* C17: an add request answered 201 has processed every id of its list, also
\* the ids that follow a reactivated one.
AddProcessesEveryId ==
  \A r \in Reqs :
    (/\ req[r].op = "add"
     /\ req[r].pc = "done"
     /\ req[r].status = 201)
      => req[r].i >= Len(req[r].ids)

\* ---- C18
\* C18: the update step of a remove request on clique g leaves every Member
\* record of another clique as it is.
RemoveStaysInClique ==
  [][\A r \in Reqs :
       (/\ req[r].op = "remove"
        /\ req[r].pc = "r_update"
        /\ Acted(r))
         => \A m \in members :
              m.clique_id # req[r].clique => m \in members']_vars

\* ---- C19
\* C19: a clique that has an active admin keeps one for as long as it exists.
ActiveAdmins(M, g) == {m \in M : m.clique_id = g /\ m.is_admin /\ m.is_active}

LastAdminKept ==
  [][\A g \in cliques' :
       ActiveAdmins(members, g) # {} => ActiveAdmins(members', g) # {}]_vars

\* ---- C20
\* C20: a Media record is written only while its sender is an active member
\* of the record's clique.
MediaOnlyByActiveSender ==
  [][\A x \in media' \ media :
       \E m \in members : /\ m.member_id = x.sender_id
                          /\ m.clique_id = x.clique_id
                          /\ m.is_active]_vars
====
